---- MODULE Spec2Model ----
(***************************************************************************)
(* Model of parse_json.py (d0sboots/VaultDict): the atom table             *)
(* (compute_atoms), the punctuation algorithm (canonicalize) and the       *)
(* memoized word resolver (create_word / compute_words).                   *)
(*                                                                         *)
(* A glyph string is a sequence of one-character strings.                  *)
(* SpecCanon runs canonicalize statement by statement on one input, and    *)
(* then once more on its own output.  SpecWords runs compute_words on a    *)
(* word list, with the recursion of create_word kept on an explicit stack. *)
(***************************************************************************)
EXTENDS Integers, Sequences, FiniteSets, TLC

\* ------------------------------------------------------------------ bounds
MaxLen == 5
MaxMixedLen == 3
NumWords == 3
MaxTotal == 4
MaxDepth == 6

\* --------------------------------------------------------------- constants
ATOM == "atom"
TYPE == "type"
PREFIX == "prefix"
MODIFIER == "modifier"
PUNCTUATION == "punctuation"

\* The entries of FONTMAP the model uses: the of-glyph, one concept for each
\* atomType of the data, and the three punctuation concepts.
FONTMAP ==
  [c \in {"of", "truth", "possession", "verb", "not",
          "primitive", "joinglyph2", "joinglyph1"} |->
     CASE c = "of" -> "'"
       [] c = "truth" -> "a"
       [] c = "possession" -> "e"
       [] c = "verb" -> "\""
       [] c = "not" -> "x"
       [] c = "primitive" -> ","
       [] c = "joinglyph2" -> "."
       [] c = "joinglyph1" -> ":"]

Glyphs == {FONTMAP[c] : c \in DOMAIN FONTMAP}
PunctGlyphs == {",", ".", ":"}
PlainGlyphs == Glyphs \ PunctGlyphs

\* The word names of the data and their case-folded forms.
WordPool == <<"Wa", "Wb", "Wc", "Wd", "We">>
FoldedPool == <<"wa", "wb", "wc", "wd", "we">>

\* str.casefold() on the names the model uses (concept names are already
\* lower case).
casefold(n) ==
  IF \E k \in DOMAIN WordPool : WordPool[k] = n
    THEN FoldedPool[CHOOSE k \in DOMAIN WordPool : WordPool[k] = n]
    ELSE n

Atom(name, type) == [name |-> name, type |-> type]

\* The atoms list of the data: one record per declared concept.  The
\* atomType of "of" is left open.
AtomTypes == {ATOM, PREFIX, TYPE, MODIFIER}
AtomsList(ofType) ==
  << [name |-> "of", atomType |-> ofType],
     [name |-> "truth", atomType |-> ATOM],
     [name |-> "possession", atomType |-> PREFIX],
     [name |-> "verb", atomType |-> TYPE],
     [name |-> "not", atomType |-> MODIFIER] >>

\* Mutant: atomType "modifier" is normalised to the category Type.
compute_atoms_modifier_as_type(atoms_list) ==
  LET declared == {FONTMAP[casefold(atoms_list[k].name)] : k \in DOMAIN atoms_list}
      last(g) == CHOOSE k \in DOMAIN atoms_list :
                   /\ FONTMAP[casefold(atoms_list[k].name)] = g
                   /\ \A j \in DOMAIN atoms_list :
                        FONTMAP[casefold(atoms_list[j].name)] = g => j <= k
      cat(t) == IF t = MODIFIER THEN TYPE ELSE t
  IN [g \in declared \cup PunctGlyphs |->
        CASE g = FONTMAP["joinglyph1"] -> Atom("joinGlyph1", PUNCTUATION)
          [] g = FONTMAP["joinglyph2"] -> Atom("joinGlyph2", PUNCTUATION)
          [] g = FONTMAP["primitive"] -> Atom("primitive", PUNCTUATION)
          [] OTHER -> Atom(atoms_list[last(g)].name, cat(atoms_list[last(g)].atomType))]

\* compute_atoms: glyph -> Atom(name, atomType), a later declaration of the
\* same glyph replacing an earlier one, then the three punctuation entries.
compute_atoms(atoms_list) ==
  LET declared == {FONTMAP[casefold(atoms_list[k].name)] : k \in DOMAIN atoms_list}
      last(g) == CHOOSE k \in DOMAIN atoms_list :
                   /\ FONTMAP[casefold(atoms_list[k].name)] = g
                   /\ \A j \in DOMAIN atoms_list :
                        FONTMAP[casefold(atoms_list[j].name)] = g => j <= k
  IN [g \in declared \cup PunctGlyphs |->
        CASE g = FONTMAP["joinglyph1"] -> Atom("joinGlyph1", PUNCTUATION)
          [] g = FONTMAP["joinglyph2"] -> Atom("joinGlyph2", PUNCTUATION)
          [] g = FONTMAP["primitive"] -> Atom("primitive", PUNCTUATION)
          [] OTHER -> Atom(atoms_list[last(g)].name, atoms_list[last(g)].atomType)]

\* The check at the end of compute_atoms: every glyph of FONTMAP is a key.
AtomsComplete(tbl) == \A c \in DOMAIN FONTMAP : FONTMAP[c] \in DOMAIN tbl

\* ------------------------------------------------------------ canonicalize
\* Value of `current` while no glyph is held.
NoGlyph == "None"

\* Step 1: str.translate(squash_dict) deletes the punctuation glyphs.
squash(s, tbl) == SelectSeq(s, LAMBDA g : tbl[g].type # PUNCTUATION)

\* One iteration of the de-duplication loop; st = [current, new_list].
DedupStep(st, atom, tbl) ==
  LET atom_type == tbl[atom].type IN
  IF atom_type \in {PREFIX, TYPE}
    THEN IF st.current # atom
           THEN [current |-> atom, new_list |-> Append(st.new_list, atom)]
           ELSE st
    ELSE IF atom_type = ATOM
           THEN [current |-> NoGlyph, new_list |-> Append(st.new_list, atom)]
           ELSE [current |-> st.current, new_list |-> Append(st.new_list, atom)]

RECURSIVE DedupLoop(_, _, _)
DedupLoop(st, s, tbl) ==
  IF s = <<>> THEN st
  ELSE DedupLoop(DedupStep(st, Head(s), tbl), Tail(s), tbl)

\* Step 2: the whole de-duplication loop.
dedup(s, tbl) == DedupLoop([current |-> NoGlyph, new_list |-> <<>>], s, tbl).new_list

\* Mutant: the pre-prefix test is made before the post-type test.
BranchPrefixFirst(prev_atom, prev_type, atom_type, curr_len) ==
  IF atom_type = PREFIX /\ prev_type # PREFIX THEN "c"
  ELSE IF prev_type = TYPE /\ atom_type # TYPE THEN "a"
  ELSE IF prev_atom = "'" /\ curr_len <= 4 THEN "b"
  ELSE "none"

\* Mutant: the length test of the of-rule uses a limit of 5.
BranchLongerOf(prev_atom, prev_type, atom_type, curr_len) ==
  IF prev_type = TYPE /\ atom_type # TYPE THEN "a"
  ELSE IF prev_atom = "'" /\ curr_len <= 5 THEN "b"
  ELSE IF atom_type = PREFIX /\ prev_type # PREFIX THEN "c"
  ELSE "none"

\* The if / elif / elif chain of the core loop: which branch is taken.
Branch(prev_atom, prev_type, atom_type, curr_len) ==
  IF prev_type = TYPE /\ atom_type # TYPE THEN "a"
  ELSE IF prev_atom = "'" /\ curr_len <= 4 THEN "b"
  ELSE IF atom_type = PREFIX /\ prev_type # PREFIX THEN "c"
  ELSE "none"

\* The inner test of the colon branch.
EmitColon(needs_join, prev_type) == needs_join \/ prev_type # ATOM

\* What the taken branch appends before the glyph.
Joiner(branch, needs_join, prev_type) ==
  CASE branch = "a" -> <<".">>
    [] branch = "b" -> <<".">>
    [] branch = "c" -> IF EmitColon(needs_join, prev_type) THEN <<":">> ELSE <<>>
    [] OTHER -> <<>>

\* Mutant: needs_join records whether a colon was emitted.
NeedsJoinAfterColonOnly(branch, needs_join, prev_type) ==
  IF branch = "c" THEN EmitColon(needs_join, prev_type) ELSE needs_join

\* needs_join after the iteration.
NeedsJoinAfter(branch, needs_join, prev_type) ==
  IF branch = "c" THEN TRUE ELSE needs_join

\* Mutant: a glyph that follows a silent pre-prefix transition is lost.
AppendGlyphLossy(new_list, joiner, branch, atom) ==
  IF branch = "c" /\ joiner = <<>> THEN new_list
  ELSE Append(new_list \o joiner, atom)

\* new_list after the iteration.
AppendGlyph(new_list, joiner, branch, atom) == Append(new_list \o joiner, atom)

\* One iteration of the core loop;
\* st = [prev_atom, prev_type, needs_join, curr_len, new_list].
ScanStep(st, atom, tbl) ==
  LET atom_type == tbl[atom].type
      branch == Branch(st.prev_atom, st.prev_type, atom_type, st.curr_len)
      joiner == Joiner(branch, st.needs_join, st.prev_type)
  IN [prev_atom |-> atom,
      prev_type |-> atom_type,
      needs_join |-> NeedsJoinAfter(branch, st.needs_join, st.prev_type),
      curr_len |-> st.curr_len + Len(joiner),
      new_list |-> AppendGlyph(st.new_list, joiner, branch, atom)]

\* The state of the core loop before its first iteration.
ScanInit(atom_string, tbl) ==
  [prev_atom |-> atom_string[1],
   prev_type |-> tbl[atom_string[1]].type,
   needs_join |-> tbl[atom_string[1]].type = PREFIX,
   curr_len |-> Len(atom_string),
   new_list |-> <<atom_string[1]>>]

RECURSIVE ScanLoop(_, _, _)
ScanLoop(st, s, tbl) ==
  IF s = <<>> THEN st
  ELSE ScanLoop(ScanStep(st, Head(s), tbl), Tail(s), tbl)

\* Mutant: the comma test looks at the length after de-duplication.
CommaFixupDedupLen(joined, orig_len, tbl) ==
  IF Len(SelectSeq(joined, LAMBDA g : tbl[g].type # PUNCTUATION)) = 2
       /\ tbl[joined[1]].type = PREFIX
    THEN Append(joined, ",")
    ELSE joined

\* Step 4: the comma after a two-glyph word that starts with a prefix.
CommaFixup(joined, orig_len, tbl) ==
  IF orig_len = 2 /\ tbl[joined[1]].type = PREFIX
    THEN Append(joined, ",")
    ELSE joined

\* Mutant: the colons are dropped only from results of two glyphs or less.
PruneShorter(s) ==
  LET pruned == SelectSeq(s, LAMBDA g : g # ":") IN
  IF Len(pruned) <= 2 THEN pruned ELSE s

\* Step 5: drop the colons when that leaves three glyphs or less.
Prune(s) ==
  LET pruned == SelectSeq(s, LAMBDA g : g # ":") IN
  IF Len(pruned) <= 3 THEN pruned ELSE s

\* canonicalize as a function, for a string with a non-punctuation glyph.
canonicalize(s, tbl) ==
  LET squashed == squash(s, tbl)
      deduped == dedup(squashed, tbl)
      scanned == ScanLoop(ScanInit(deduped, tbl), Tail(deduped), tbl)
  IN Prune(CommaFixup(scanned.new_list, Len(squashed), tbl))

\* ------------------------------------------------------------------- state
VARIABLES
  atoms_list,    \* data['atoms']
  atoms,         \* compute_atoms(data['atoms'])
  pc,            \* position in canonicalize (SpecCanon) or compute_words (SpecWords)
  arg,           \* the atom_string argument of the running canonicalize call
  atom_string,   \* local atom_string of canonicalize
  orig_len,      \* local orig_len
  dedup_string,  \* atom_string as assigned after the de-duplication loop,
                 \* which is the string the core loop iterates over
  idx,           \* 1-based position of the core loop in dedup_string
  prev_atom, prev_type, needs_join, curr_len, new_list,  \* locals of the core loop
  fired,         \* the branch taken by each finished iteration of the core loop
  round,         \* 1: first call; 2: the call on the first call's result
  first_arg, first_out,  \* argument and result of the first call
  words_list,    \* data['words']
  words,         \* the words dictionary of compute_words
  order,         \* key order of the words dictionary
  pos,           \* position of the for loop of compute_words in order
  stack,         \* the active create_word calls, innermost last
  runs           \* per word, how many times canonicalize ran for it

canonVars == <<arg, atom_string, orig_len, dedup_string, idx, prev_atom,
               prev_type, needs_join, curr_len, new_list, fired, round,
               first_arg, first_out>>
wordVars == <<words_list, words, order, pos, stack, runs>>
vars == <<atoms_list, atoms, pc, canonVars, wordVars>>

RECURSIVE Strings(_, _)
\* All strings over alphabet of length at most n.
Strings(alphabet, n) ==
  IF n = 0 THEN {<<>>}
  ELSE Strings(alphabet, n - 1) \cup [1..n -> alphabet]

\* Arguments of canonicalize: punctuation-free strings up to MaxLen and
\* strings with punctuation up to MaxMixedLen.
Inputs == Strings(PlainGlyphs, MaxLen) \cup Strings(Glyphs, MaxMixedLen)

\* Optional string: the atoms field of a Word.
None == [some |-> FALSE, val |-> <<>>]
Some(s) == [some |-> TRUE, val |-> s]

CanonIdle ==
  /\ arg = <<>> /\ atom_string = <<>> /\ orig_len = 0 /\ dedup_string = <<>>
  /\ idx = 0 /\ prev_atom = NoGlyph /\ prev_type = NoGlyph
  /\ needs_join = FALSE /\ curr_len = 0 /\ new_list = <<>> /\ fired = <<>>
  /\ round = 0 /\ first_arg = <<>> /\ first_out = <<>>

WordsIdle ==
  /\ words_list = <<>> /\ words = <<>> /\ order = <<>> /\ pos = 0
  /\ stack = <<>> /\ runs = <<>>

\* ------------------------------------------------- canonicalize, stepwise
InitCanon ==
  /\ atoms_list \in {AtomsList(t) : t \in AtomTypes}
  /\ atoms = compute_atoms(atoms_list)
  /\ AtomsComplete(atoms)
  /\ arg \in Inputs
  /\ atom_string = arg
  /\ pc = "squash"
  /\ orig_len = 0 /\ dedup_string = <<>> /\ idx = 0
  /\ prev_atom = NoGlyph /\ prev_type = NoGlyph /\ needs_join = FALSE
  /\ curr_len = 0 /\ new_list = <<>> /\ fired = <<>>
  /\ round = 1 /\ first_arg = <<>> /\ first_out = <<>>
  /\ WordsIdle

\* Lines 98-116: squash, orig_len, the de-duplication loop.
Prepare ==
  /\ pc = "squash"
  /\ orig_len' = Len(squash(atom_string, atoms))
  /\ atom_string' = dedup(squash(atom_string, atoms), atoms)
  /\ dedup_string' = atom_string'
  /\ pc' = "scaninit"
  /\ UNCHANGED <<atoms_list, atoms, arg, idx, prev_atom, prev_type, needs_join,
                 curr_len, new_list, fired, round, first_arg, first_out, wordVars>>

\* Lines 121-126; atom_string[0] raises IndexError on the empty string.
StartScan ==
  /\ pc = "scaninit"
  /\ IF atom_string = <<>>
       THEN /\ pc' = "raised"
            /\ UNCHANGED <<curr_len, prev_atom, prev_type, needs_join, new_list, idx>>
       ELSE LET st == ScanInit(atom_string, atoms) IN
            /\ curr_len' = st.curr_len
            /\ prev_atom' = st.prev_atom
            /\ prev_type' = st.prev_type
            /\ needs_join' = st.needs_join
            /\ new_list' = st.new_list
            /\ idx' = 2
            /\ pc' = "scan"
  /\ fired' = <<>>
  /\ UNCHANGED <<atoms_list, atoms, arg, atom_string, orig_len, dedup_string,
                 round, first_arg, first_out, wordVars>>

\* Lines 127-154: one iteration of the core loop.
CoreLoop ==
  /\ pc = "scan"
  /\ idx <= Len(dedup_string)
  /\ LET atom == dedup_string[idx]
         st == ScanStep([prev_atom |-> prev_atom, prev_type |-> prev_type,
                         needs_join |-> needs_join, curr_len |-> curr_len,
                         new_list |-> new_list], atom, atoms)
     IN /\ prev_atom' = st.prev_atom
        /\ prev_type' = st.prev_type
        /\ needs_join' = st.needs_join
        /\ curr_len' = st.curr_len
        /\ new_list' = st.new_list
        /\ fired' = Append(fired, Branch(prev_atom, prev_type, atoms[atom].type, curr_len))
  /\ idx' = idx + 1
  /\ UNCHANGED <<atoms_list, atoms, pc, arg, atom_string, orig_len, dedup_string,
                 round, first_arg, first_out, wordVars>>

\* Lines 155-157: join new_list, the comma fixup.
Fixup ==
  /\ pc = "scan"
  /\ idx > Len(dedup_string)
  /\ atom_string' = CommaFixup(new_list, orig_len, atoms)
  /\ pc' = "prune"
  /\ UNCHANGED <<atoms_list, atoms, arg, orig_len, dedup_string, idx, prev_atom,
                 prev_type, needs_join, curr_len, new_list, fired, round,
                 first_arg, first_out, wordVars>>

\* Lines 160-163: the colon pruning and the return.
PruneReturn ==
  /\ pc = "prune"
  /\ atom_string' = Prune(atom_string)
  /\ pc' = "returned"
  /\ UNCHANGED <<atoms_list, atoms, arg, orig_len, dedup_string, idx, prev_atom,
                 prev_type, needs_join, curr_len, new_list, fired, round,
                 first_arg, first_out, wordVars>>

\* create_word for a word whose only component is the word just resolved:
\* canonicalize is called on the returned string.
Reapply ==
  /\ pc = "returned"
  /\ round = 1
  /\ first_arg' = arg
  /\ first_out' = atom_string
  /\ arg' = atom_string
  /\ round' = 2
  /\ pc' = "squash"
  /\ UNCHANGED <<atoms_list, atoms, atom_string, orig_len, dedup_string, idx,
                 prev_atom, prev_type, needs_join, curr_len, new_list, fired,
                 wordVars>>

NextCanon == Prepare \/ StartScan \/ CoreLoop \/ Fixup \/ PruneReturn \/ Reapply

SpecCanon == InitCanon /\ [][NextCanon]_vars

\* ------------------------------------------ compute_words / create_word
Word(name, components, atoms_) ==
  [name |-> name, components |-> components, atoms |-> atoms_]

\* What a component may name: a concept or a declared word.
Concepts == {"possession", "primitive"}
Refs == Concepts \cup {WordPool[k] : k \in 1..NumWords}

RECURSIVE SumTo(_, _)
SumTo(f, n) == IF n = 0 THEN 0 ELSE f[n] + SumTo(f, n - 1)

\* Component counts per word: at least one each, MaxTotal in all.
LenVectors ==
  {l \in [1..NumWords -> 1..(MaxTotal - NumWords + 1)] : SumTo(l, NumWords) <= MaxTotal}

\* data['words'] with the component lists cut out of flat.
WordsList(lens, flat) ==
  [k \in 1..NumWords |->
     [name |-> WordPool[k],
      components |-> SubSeq(flat, SumTo(lens, k - 1) + 1, SumTo(lens, k))]]

\* The table the word model resolves against.
WordAtomsList == AtomsList(PREFIX)

\* A create_word call: its word argument, the position of its for loop and
\* the glyphs of atom_list so far.
Frame(word) == [word |-> word, i |-> 1, atom_list |-> <<>>]

Active(key) == \E k \in DOMAIN stack : casefold(stack[k].word.name) = key

\* Mutant: no memo test, every call computes.
MemoizedNever(word) == FALSE

\* Mutant: a word whose call is still running counts as computed.
MemoizedOrActive(word) == word.atoms.some \/ Active(casefold(word.name))

\* Line 168: word.atoms is not None.
Memoized(word) == word.atoms.some

InitWords ==
  /\ atoms_list = WordAtomsList
  /\ atoms = compute_atoms(atoms_list)
  /\ AtomsComplete(atoms)
  /\ \E lens \in LenVectors :
       \E flat \in [1..SumTo(lens, NumWords) -> Refs] :
         words_list = WordsList(lens, flat)
  /\ order = [k \in DOMAIN words_list |-> casefold(words_list[k].name)]
  /\ words = [key \in {casefold(words_list[k].name) : k \in DOMAIN words_list} |->
                LET x == words_list[CHOOSE k \in DOMAIN words_list :
                           /\ casefold(words_list[k].name) = key
                           /\ \A j \in DOMAIN words_list :
                                casefold(words_list[j].name) = key => j <= k]
                IN Word(x.name, x.components, None)]
  /\ runs = [key \in {casefold(words_list[k].name) : k \in DOMAIN words_list} |-> 0]
  /\ pos = 1
  /\ stack = <<>>
  /\ pc = "loop"
  /\ CanonIdle

\* Lines 189-190 and 168-169: the loop of compute_words calls create_word on
\* the next word, which returns at once when the word is computed.
LoopCall ==
  /\ pc = "loop"
  /\ stack = <<>>
  /\ pos <= Len(order)
  /\ LET word == words[order[pos]] IN
     IF Memoized(word)
       THEN pos' = pos + 1 /\ stack' = stack
       ELSE pos' = pos /\ stack' = <<Frame(word)>>
  /\ UNCHANGED <<atoms_list, atoms, pc, canonVars, words_list, words, order, runs>>

\* Lines 171-179: one component of the innermost call.
Component ==
  /\ pc = "loop"
  /\ stack # <<>>
  /\ LET top == stack[Len(stack)] IN
     /\ top.i <= Len(top.word.components)
     /\ LET part == casefold(top.word.components[top.i])
            take(piece) == [stack EXCEPT ![Len(stack)] =
                              [top EXCEPT !.i = top.i + 1,
                                          !.atom_list = top.atom_list \o piece]]
        IN IF part \in DOMAIN FONTMAP
             THEN stack' = take(<<FONTMAP[part]>>)
             ELSE LET subword == words[part] IN
                  IF Memoized(subword)
                    THEN stack' = take(subword.atoms.val)
                    ELSE /\ Len(stack) < MaxDepth
                         /\ stack' = Append(stack, Frame(subword))
  /\ UNCHANGED <<atoms_list, atoms, pc, canonVars, words_list, words, order, pos, runs>>

\* Lines 180-182: canonicalize, store the word, return to the caller, which
\* appends the string (line 179).  canonicalize raises IndexError when no
\* glyph is left after the squash.
Store ==
  /\ pc = "loop"
  /\ stack # <<>>
  /\ LET top == stack[Len(stack)]
         key == casefold(top.word.name)
         rest == SubSeq(stack, 1, Len(stack) - 1)
     IN /\ top.i > Len(top.word.components)
        /\ IF squash(top.atom_list, atoms) = <<>>
             THEN /\ pc' = "raised"
                  /\ UNCHANGED <<words, runs, stack, pos>>
             ELSE LET atom_string_ == canonicalize(top.atom_list, atoms) IN
                  /\ words' = [words EXCEPT ![key] = [top.word EXCEPT !.atoms = Some(atom_string_)]]
                  /\ runs' = [runs EXCEPT ![key] = @ + 1]
                  /\ IF rest = <<>>
                       THEN stack' = rest /\ pos' = pos + 1
                       ELSE /\ stack' = [rest EXCEPT ![Len(rest)] =
                                           [@ EXCEPT !.i = @ + 1,
                                                     !.atom_list = @ \o atom_string_]]
                            /\ pos' = pos
                  /\ pc' = pc
  /\ UNCHANGED <<atoms_list, atoms, canonVars, words_list, order>>

\* Line 191: the loop is over, compute_words returns.
Finish ==
  /\ pc = "loop"
  /\ stack = <<>>
  /\ pos > Len(order)
  /\ pc' = "returned"
  /\ UNCHANGED <<atoms_list, atoms, canonVars, wordVars>>

NextWords == LoopCall \/ Component \/ Store \/ Finish

SpecWords == InitWords /\ [][NextWords]_vars

\* The interpreter runs the one thread until it returns or raises.
SpecWordsFair == SpecWords /\ WF_vars(NextWords)

\* ------------------------------------------------ properties: canonicalize
\* The atomType the data declares for glyph g ("" when g is not declared).
DeclaredType(g) ==
  IF \E k \in DOMAIN atoms_list : FONTMAP[casefold(atoms_list[k].name)] = g
    THEN atoms_list[CHOOSE k \in DOMAIN atoms_list :
                      FONTMAP[casefold(atoms_list[k].name)] = g].atomType
    ELSE ""

Plain(s) == SelectSeq(s, LAMBDA g : g \notin PunctGlyphs)
NoColon(s) == SelectSeq(s, LAMBDA g : g # ":")
JoinersIn(s) == Len(SelectSeq(s, LAMBDA g : g \in {".", ":"}))
Count(s, g) == Len(SelectSeq(s, LAMBDA h : h = g))
Returned == pc = "returned"
\* The core loop has just handled dedup_string[idx - 1], after dedup_string[idx - 2].
Stepped == pc = "scan" /\ idx >= 3
PrevGlyph == dedup_string[idx - 2]
CurGlyph == dedup_string[idx - 1]
\* What the last iteration put before its glyph.
LastJoiner ==
  IF Len(new_list) >= 2 /\ new_list[Len(new_list) - 1] \in {".", ":"}
    THEN <<new_list[Len(new_list) - 1]>> ELSE <<>>
\* A step of the core loop.
LoopStep == pc = "scan" /\ pc' = "scan" /\ idx' = idx + 1

\* C1 as stated: a de-duplicated length of 2 with a leading Prefix always
\* gives a result that ends with the comma.
C1_AsStated ==
  Returned =>
    ((Len(dedup_string) = 2 /\ atoms[dedup_string[1]].type = PREFIX)
       => atom_string[Len(atom_string)] = ",")

\* C1 (amended): when the squashed string, before de-duplication, has length
\* exactly 2 and the first glyph is a Prefix, the result ends with the comma.
C1_CommaOnSquashedLen2 ==
  Returned =>
    ((Len(squash(arg, atoms)) = 2 /\ atoms[dedup_string[1]].type = PREFIX)
       => atom_string[Len(atom_string)] = ",")

\* Two equal prefixes: squashed length 2, de-duplicated length 1, comma added.
C1_Witness ==
  /\ Returned
  /\ Len(squash(arg, atoms)) = 2 /\ Len(dedup_string) = 1
  /\ atoms[dedup_string[1]].type = PREFIX
  /\ atom_string = <<dedup_string[1], ",">>

\* C2 as stated: a glyph declared "modifier" has category Type, adjacent
\* copies of it are de-duplicated, and a dot follows it before any glyph that
\* is not Type.
C2_AsStated ==
  /\ pc = "scaninit" =>
       \A k \in 1..(Len(dedup_string) - 1) :
         DeclaredType(dedup_string[k]) = MODIFIER
           => dedup_string[k + 1] # dedup_string[k]
  /\ (Stepped /\ DeclaredType(PrevGlyph) = MODIFIER)
       => /\ atoms[PrevGlyph].type = TYPE
          /\ DeclaredType(CurGlyph) \notin {MODIFIER, TYPE} => LastJoiner = <<".">>

\* C2 (amended): a glyph declared "modifier" keeps the category "modifier",
\* which canonicalize does not treat as Type: de-duplication never drops it
\* and the post-type rule never puts a dot after it.  A glyph declared "type"
\* has category Type: an adjacent copy of it is dropped, and a dot follows it
\* before any glyph that is not declared "type".
C2_ModifierIsNotType ==
  /\ \A g \in PlainGlyphs :
       DeclaredType(g) \in {MODIFIER, TYPE} => atoms[g].type = DeclaredType(g)
  /\ pc = "scaninit" =>
       /\ \A g \in PlainGlyphs :
            DeclaredType(g) = MODIFIER => Count(dedup_string, g) = Count(arg, g)
       /\ \A k \in 1..(Len(dedup_string) - 1) :
            DeclaredType(dedup_string[k]) = TYPE
              => dedup_string[k + 1] # dedup_string[k]
  /\ (Stepped /\ DeclaredType(PrevGlyph) = MODIFIER)
       => /\ fired[idx - 2] # "a"
          /\ (PrevGlyph # "'" => LastJoiner # <<".">>)
  /\ (Stepped /\ DeclaredType(PrevGlyph) = TYPE /\ DeclaredType(CurGlyph) # TYPE)
       => LastJoiner = <<".">>

\* A modifier glyph followed by an atom: both kept, no dot between them.
C2_Witness ==
  /\ Stepped
  /\ DeclaredType(PrevGlyph) = MODIFIER /\ atoms[CurGlyph].type = ATOM
  /\ LastJoiner = <<>>
  /\ Count(arg, PrevGlyph) >= 2 /\ Count(dedup_string, PrevGlyph) = Count(arg, PrevGlyph)

\* C4: the result holds a colon only if it has at least 4 glyphs besides
\* the colons.
C4_ColonOnlyInLongResult ==
  Returned =>
    ((\E k \in DOMAIN atom_string : atom_string[k] = ":")
       => Len(NoColon(atom_string)) >= 4)

\* The pruning removed a colon that the core loop had inserted.
C4_Witness ==
  /\ Returned
  /\ \E k \in DOMAIN new_list : new_list[k] = ":"
  /\ \A k \in DOMAIN atom_string : atom_string[k] # ":"

\* C5: the result without its punctuation glyphs is the de-duplicated,
\* unpunctuated string of Steps 1-2.
C5_PlainPartIsDedup ==
  Returned => Plain(atom_string) = dedup_string

\* A result with inserted punctuation, from an argument that lost a glyph
\* to de-duplication and held punctuation itself.
C5_Witness ==
  /\ Returned
  /\ Len(atom_string) > Len(dedup_string)
  /\ Len(dedup_string) < Len(squash(arg, atoms))
  /\ Len(squash(arg, atoms)) < Len(arg)

\* C6: when the post-type rule does not apply and the previous glyph is the
\* of-glyph, a dot is inserted exactly when curr_len <= 4, curr_len being the
\* de-duplicated length plus the joiners inserted so far; with a
\* de-duplicated length of 5 or more the of-rule never fires.
C6_OfRuleLengthWindow ==
  [][LoopStep =>
       LET atom == dedup_string[idx]
           ruleA == prev_type = TYPE /\ atoms[atom].type # TYPE
           dot == new_list' = new_list \o <<".", atom>>
       IN /\ curr_len = Len(dedup_string) + JoinersIn(new_list)
          /\ (~ruleA /\ prev_atom = "'")
               => /\ dot <=> (Len(dedup_string) + JoinersIn(new_list) <= 4)
                  /\ Len(dedup_string) >= 5 => ~dot]_vars

\* A word of de-duplicated length at most 4 in which a joiner inserted
\* earlier took the dot away from a later of-glyph.
C6_Witness ==
  /\ Stepped
  /\ Len(dedup_string) <= 4
  /\ PrevGlyph = "'"
  /\ fired[idx - 2] = "none"
  /\ \E k \in 1..(idx - 3) : fired[k] \in {"a", "b", "c"}

\* Positions of the finished iterations that took the pre-prefix branch, and
\* those among them that emitted no colon (iteration k handles glyph k + 1).
PrefixSteps == {k \in DOMAIN fired : fired[k] = "c"}
SilentSteps ==
  {k \in PrefixSteps :
     \E n \in DOMAIN new_list :
       /\ new_list[n] \notin PunctGlyphs
       /\ Len(Plain(SubSeq(new_list, 1, n))) = k + 1
       /\ new_list[n - 1] # ":"}

\* C7: during the core loop needs_join is true iff the first glyph is a
\* Prefix or an earlier iteration took the pre-prefix branch; at most one
\* such iteration emits no colon, and it is the first of them, in a word
\* whose first glyph is not a Prefix, after an Atom.
C7_NeedsJoinMonotone ==
  pc = "scan" =>
    /\ needs_join <=> (atoms[dedup_string[1]].type = PREFIX \/ PrefixSteps # {})
    /\ Cardinality(SilentSteps) <= 1
    /\ \A k \in SilentSteps :
         /\ \A j \in PrefixSteps : k <= j
         /\ atoms[dedup_string[1]].type # PREFIX
         /\ atoms[dedup_string[k]].type = ATOM

\* A silent pre-prefix transition followed by one that got its colon.
C7_Witness ==
  /\ pc = "scan"
  /\ Cardinality(SilentSteps) = 1
  /\ Cardinality(PrefixSteps) >= 2

\* C8: an iteration puts at most one punctuation glyph before its glyph;
\* after a Type glyph, before a glyph that is not Type, it is exactly one
\* dot, and needs_join keeps its value.
C8_OneJoinerPostTypeFirst ==
  [][LoopStep =>
       LET atom == dedup_string[idx] IN
       /\ \E j \in {<<>>, <<".">>, <<":">>} : new_list' = (new_list \o j) \o <<atom>>
       /\ (prev_type = TYPE /\ atoms[atom].type # TYPE)
            => /\ new_list' = new_list \o <<".", atom>>
               /\ needs_join' = needs_join]_vars

\* A Prefix right after a Type glyph, late in a long word, with needs_join
\* still false: a dot and no colon.
C8_Witness ==
  /\ Stepped
  /\ atoms[PrevGlyph].type = TYPE /\ atoms[CurGlyph].type = PREFIX
  /\ LastJoiner = <<".">>
  /\ ~needs_join
  /\ curr_len > 5

\* C10 as stated: canonicalize applied to its own result returns it unchanged.
C10_AsStated ==
  (Returned /\ round = 2) => atom_string = first_out

\* C10 (amended): canonicalize applied to its own result returns it
\* unchanged exactly when the comma test gives the same answer both times:
\* unless the first glyph is a Prefix and exactly one of the squashed length
\* and the de-duplicated length of the first argument is 2.
C10_StableUnlessCommaFlips ==
  (Returned /\ round = 2) =>
    ((atom_string = first_out)
       <=> ~(/\ atoms[dedup_string[1]].type = PREFIX
             /\ (Len(squash(first_arg, atoms)) = 2) # (Len(dedup_string) = 2)))

\* A second call that returned its argument unchanged, punctuation included.
C10_Witness ==
  /\ Returned /\ round = 2
  /\ atom_string = first_out
  /\ Len(atom_string) > Len(dedup_string)
  /\ Len(squash(first_arg, atoms)) > Len(dedup_string)

\* ----------------------------------------------- properties: compute_words
Keys == DOMAIN words
\* key -> the keys of the words its components name.
Uses(key) ==
  {casefold(words[key].components[k]) : k \in DOMAIN words[key].components} \cap Keys

RECURSIVE ReachIn(_, _)
\* Keys reached from the set S by 1 to n references.
ReachIn(S, n) ==
  IF n = 0 THEN {}
  ELSE LET step == UNION {Uses(k) : k \in S} IN step \cup ReachIn(step, n - 1)

CyclicKeys == {k \in Keys : k \in ReachIn({k}, Cardinality(Keys))}
\* Keys whose resolution needs a word on a cycle.
DoomedKeys == {k \in Keys : (ReachIn({k}, Cardinality(Keys)) \cup {k}) \cap CyclicKeys # {}}
Acyclic == CyclicKeys = {}

\* C3: on an acyclic word list canonicalize runs at most once per word, a
\* word holds a string exactly when it has run, a stored string never
\* changes, and when compute_words returns every word has run exactly once.
C3_ResolvedOnceAndFinal ==
  /\ [](Acyclic =>
          /\ \A k \in Keys : runs[k] <= 1 /\ (words[k].atoms.some <=> runs[k] = 1)
          /\ pc = "returned" => \A k \in Keys : words[k].atoms.some /\ runs[k] = 1)
  /\ [][Acyclic => \A k \in Keys : words[k].atoms.some => words'[k] = words[k]]_vars

\* compute_words returned on a list where two words both use a third.
C3_Witness ==
  /\ pc = "returned"
  /\ Acyclic
  /\ \E k \in Keys : Cardinality({j \in Keys \ {k} : k \in Uses(j)}) >= 2
  /\ \A k \in Keys : runs[k] = 1

\* C9: a word on a reference cycle, or one that needs such a word, never
\* gets its string and compute_words never returns; a reference to a word
\* whose call is still running starts one more call for it; with no cycle
\* the calls never nest deeper than the number of words and compute_words
\* ends.
C9_NoCycleCheck ==
  /\ [](/\ \A k \in DoomedKeys : ~words[k].atoms.some
        /\ ~Acyclic => pc # "returned"
        /\ Acyclic => Len(stack) <= Cardinality(Keys))
  /\ [][(/\ pc = "loop" /\ stack # <<>>
         /\ stack[Len(stack)].i <= Len(stack[Len(stack)].word.components)
         /\ Active(casefold(stack[Len(stack)].word.components[stack[Len(stack)].i])))
          => stack' = Append(stack, Frame(words[casefold(
                        stack[Len(stack)].word.components[stack[Len(stack)].i])]))]_vars
  /\ (Acyclic ~> pc \in {"returned", "raised"})

\* The calls are nested as deep as the model lets them, one word several times.
C9_Witness ==
  /\ Len(stack) = MaxDepth
  /\ \E m, n \in DOMAIN stack : m < n /\ stack[m].word.name = stack[n].word.name
  /\ \A k \in DOMAIN stack : ~words[casefold(stack[k].word.name)].atoms.some

====
